---- MODULE Spec2Model ----
(***************************************************************************)
(* Apartment-management backend: invitation codes (hashids + Redis),      *)
(* apartment membership (user_apartments), the payment idempotency gate   *)
(* (Redis), payment status updates and bill division (PostgreSQL).        *)
(***************************************************************************)
EXTENDS Integers, Sequences, FiniteSets, TLC

\* ------------------------------------------------------------------ bounds

\* number of successful InviteUserToApartment store writes in a behaviour
MaxInvites == 2

\* number of apartments CreateApartment may create
MaxApartments == 1

\* largest id in a tuple put through the codec
MaxId == 4

\* users table (ids); user u has Telegram handle u, handle 0 belongs to nobody
Users == {1, 2, 3}
\* the users who call CreateApartment
Creators == {1}
Handles == Users \cup {0}
\* the JoinApartment calls of a behaviour; they may overlap
JoinCalls == {1, 2}
\* the PayBills calls of a behaviour; they may overlap
PayCalls == {1, 2}
\* the payment id lists and idempotency keys a PayBills request may carry
IdLists == {<<1>>, <<2>>, <<1, 2>>}
IdemKeys == {"kA", "kB"}
ApartmentIDs == 1..MaxApartments
\* the recorded InviteUserToApartment calls of a behaviour
InviteCalls == {1, 2}
\* the bill division calls of a behaviour; they may overlap
DivCalls == {1, 2}
\* bills.bill_type, and the bills (type, total_amount in hundredths) an apartment has
BillTypes == {"water", "gas"}
Bills == {[apartment_id |-> 1, bill_type |-> "water", total_amount |-> 10000],
          [apartment_id |-> 1, bill_type |-> "gas", total_amount |-> 200]}
\* the apartment a division starts from: the manager and one resident with one
\* or two bills, or the manager and two residents with one bill
TwoMembers == {[user_id |-> 1, apartment_id |-> 1, is_manager |-> TRUE],
               [user_id |-> 2, apartment_id |-> 1, is_manager |-> FALSE]}
ThreeMembers == TwoMembers \cup {[user_id |-> 3, apartment_id |-> 1, is_manager |-> FALSE]}
Scenarios ==
    {[members |-> TwoMembers, bills |-> <<x>>] : x \in Bills}
    \cup {[members |-> TwoMembers, bills |-> <<x, y>>] : x \in Bills, y \in Bills}
    \cup {[members |-> ThreeMembers, bills |-> <<x>>] : x \in Bills}

Range(s) == {s[i] : i \in DOMAIN s}

\* ------------------------------------------------------- capability codec

\* hashids.MinLength
MinLength == 8

\* the salted (shuffled) digit alphabet, the separator and the guard character
Alphabet == <<"c", "a", "d", "b">>
Separator == "s"
Guard == "g"

RECURSIVE ToDigits(_)
\* a number in base Len(Alphabet), most significant digit first
ToDigits(n) ==
    IF n < Len(Alphabet) THEN <<Alphabet[n + 1]>>
    ELSE ToDigits(n \div Len(Alphabet)) \o <<Alphabet[(n % Len(Alphabet)) + 1]>>

RECURSIVE JoinDigits(_)
\* the digit strings of the numbers, separated by the separator
JoinDigits(nums) ==
    IF nums = <<>> THEN <<>>
    ELSE IF Len(nums) = 1 THEN ToDigits(nums[1])
    ELSE ToDigits(nums[1]) \o <<Separator>> \o JoinDigits(Tail(nums))

RECURSIVE Pad(_)
\* guard characters up to the minimum length
Pad(s) == IF Len(s) >= MinLength THEN s ELSE Pad(s \o <<Guard>>)

\* the first two numbers encoded in each other's place
Encode_SwapsFirstTwo(nums) ==
    Pad(JoinDigits(<<nums[2], nums[1]>> \o SubSeq(nums, 3, Len(nums))))

\* hashID.Encode: deterministic for the salt, at least MinLength characters
Encode(nums) == Pad(JoinDigits(nums))

RECURSIVE StripGuards(_)
StripGuards(s) ==
    IF s = <<>> \/ Head(s) = Guard THEN <<>>
    ELSE <<Head(s)>> \o StripGuards(Tail(s))

RECURSIVE Chunks(_)
\* the pieces between separators
Chunks(s) ==
    IF s = <<>> THEN << <<>> >>
    ELSE LET rest == Chunks(Tail(s))
         IN IF Head(s) = Separator THEN << <<>> >> \o rest
            ELSE << <<Head(s)>> \o rest[1] >> \o Tail(rest)

DigitValue(ch) == (CHOOSE i \in DOMAIN Alphabet : Alphabet[i] = ch) - 1

RECURSIVE FromDigits(_)
FromDigits(ds) ==
    IF Len(ds) = 1 THEN DigitValue(ds[1])
    ELSE FromDigits(SubSeq(ds, 1, Len(ds) - 1)) * Len(Alphabet) + DigitValue(ds[Len(ds)])

\* hashID.DecodeWithError: the numbers of a code, or an error when the string is
\* not what Encode gives for the numbers read from it
DecodeWithError(code) ==
    LET body == StripGuards(code)
        chunks == Chunks(body)
        wellFormed == /\ body # <<>>
                      /\ \A i \in DOMAIN chunks :
                            /\ chunks[i] # <<>>
                            /\ \A j \in DOMAIN chunks[i] : chunks[i][j] \in Range(Alphabet)
        nums == [i \in DOMAIN chunks |-> FromDigits(chunks[i])]
    IN IF wellFormed /\ Encode(nums) = code
       THEN [err |-> FALSE, ids |-> nums]
       ELSE [err |-> TRUE, ids |-> <<>>]

\* ------------------------------------------------------------------ state

VARIABLES
    apartments,       \* apartments table: the ids created so far
    user_apartments,  \* user_apartments table: rows [user_id, apartment_id, is_manager]
    redis,            \* the Redis keys present (invitation:* and bill_payment:*)
    join,             \* JoinApartment calls: position and locals of each
    puts,             \* history: how many times each invitation key was written
    expired,          \* history: invitation keys whose TTL ran out
    payments,         \* payments table: id -> row
    pay,              \* PayBills calls: position, locals and history of each
    clock,            \* time.Now(), as a counter
    bills,            \* bills table: id -> row, in order of creation
    div,              \* bill division calls: position, locals and history of each
    invite,           \* recorded InviteUserToApartment calls: arguments and outcome
    codec             \* a codec round trip: the numbers, their code, what it decodes to

vars == <<apartments, user_apartments, redis, join, puts, expired, payments, pay, clock,
          bills, div, invite, codec>>
inviteVars == <<apartments, user_apartments, join, puts, expired>>
payVars == <<payments, pay, clock>>
divVars == <<bills, div>>

\* no fault in a transaction
NoFault == [kind |-> "none", at |-> 0]

\* no round trip yet
IdleCodec == [pc |-> "idle", nums |-> <<>>, code |-> <<>>, decoded |-> [err |-> FALSE, ids |-> <<>>]]

\* a recorded InviteUserToApartment call before it starts. stored: CreateInvitation
\* wrote the entry; send: what became of SendInvitation; overwrote: the entry was
\* there when CreateInvitation wrote it; checkFailed: the query of its
\* IsUserInApartment failed
IdleInvite == [pc |-> "idle", managerID |-> 0, apartmentID |-> 0, handle |-> 0, err |-> "",
               stored |-> FALSE, send |-> "not called", overwrote |-> FALSE,
               checkFailed |-> FALSE]

\* a JoinApartment call before it starts. inserted: its CreateUserApartment added
\* a row; notified: it called SendNotification
IdleJoin == [pc |-> "idle", userID |-> 0, code |-> <<>>, apartmentID |-> 0, result |-> "",
             inserted |-> FALSE, notified |-> FALSE]

\* a PayBills call before it starts. firstUse: the ids whose key the gate did not
\* find; wrote: the ids whose row the call's transaction changed; after: the calls
\* that had returned when this one started
IdlePay == [pc |-> "idle", userID |-> 0, paymentIDs |-> <<>>, key |-> "", i |-> 0,
            result |-> "", firstUse |-> {}, gateFailed |-> FALSE, updated |-> FALSE,
            fault |-> NoFault, wrote |-> {}, after |-> {},
            batch |-> FALSE, pending |-> <<>>, totalAmount |-> 0]

\* a DivideAllBills / DivideBillByType call before it starts. n: len(residents);
\* bills: the undivided bills it read; b: its position in them; todo: the
\* residents of the current bill still to come; created: the payment ids it
\* inserted; after: the calls that had returned when this one started;
\* dividedAtStart: the bills that had a payment row when it started
IdleDiv == [pc |-> "idle", userID |-> 0, apartmentID |-> 0, kind |-> "", fail |-> "",
            residents |-> {}, n |-> 0, bills |-> <<>>, b |-> 0, todo |-> {}, resident |-> 0,
            billProcessed |-> TRUE, processedBills |-> <<>>, failedBills |-> <<>>,
            totalFailedPayments |-> 0, result |-> "", created |-> {}, after |-> {},
            dividedAtStart |-> {}]

\* --------------------------------------------------------- error messages

ErrInvalidCode == "invalid or tampered code"
ErrRedis == "failed to access Redis"
ErrNotFound == "invitation not found or already used"
ErrAlreadyResident == "you are already a resident of this apartment"
ErrJoin == "failed to join apartment"
Joined == "joined apartment"
ErrInviteVerify == "failed to verify apartment manager status"
ErrInviteOnlyManagers == "only apartment managers can send invitations"
ErrInviteNoUser == "user with this Telegram username not found"
ErrCheckResident == "failed to check resident status"
ErrInviteResident == "user is already a resident of this apartment"
ErrInviteCreate == "failed to created invitation"
ErrNotify == "invitation created but failed to send notification"

\* --------------------------------------------------- user_apartments repo

\* the insert without the primary key
CreateUserApartment_NoKey(table, row, dbOk) ==
    IF dbOk THEN [err |-> FALSE, table |-> table \cup {row}]
    ELSE [err |-> TRUE, table |-> table]

\* INSERT INTO user_apartments: PRIMARY KEY (user_id, apartment_id)
CreateUserApartment(table, row, dbOk) ==
    IF dbOk /\ ~\E r \in table : r.user_id = row.user_id /\ r.apartment_id = row.apartment_id
    THEN [err |-> FALSE, table |-> table \cup {row}]
    ELSE [err |-> TRUE, table |-> table]

\* SELECT EXISTS(...): exists stays false when the query fails, and a false
\* exists is reported as the error "not in apartment"
IsUserInApartment(table, userID, apartmentID, dbOk) ==
    LET exists == dbOk /\ \E r \in table : r.user_id = userID /\ r.apartment_id = apartmentID
    IN IF ~dbOk \/ ~exists
       THEN IF ~exists THEN [exists |-> FALSE, err |-> "not in apartment"]
            ELSE [exists |-> FALSE, err |-> "db"]
       ELSE [exists |-> TRUE, err |-> ""]

\* SELECT is_manager ...: an error unless the row exists and is a manager row
IsUserManagerOfApartment(table, userID, apartmentID, dbOk) ==
    LET isManager == dbOk /\ \E r \in table :
                        r.user_id = userID /\ r.apartment_id = apartmentID /\ r.is_manager
    IN IF ~dbOk \/ ~isManager
       THEN IF ~isManager THEN [isManager |-> FALSE, err |-> "not manager"]
            ELSE [isManager |-> FALSE, err |-> "db"]
       ELSE [isManager |-> TRUE, err |-> ""]

\* ------------------------------------------------------- invitation repo

redisKey(userID, apartmentID, managerID) == <<"invitation", userID, apartmentID, managerID>>

\* the invitation keys (as id triples) the model deals in
\* (invitee, apartment, inviter); only a manager's invitation is ever stored
Tuples == Users \X ApartmentIDs \X Creators
KeyOf(t) == redisKey(t[1], t[2], t[3])

\* the code CreateInvitation returns for each key (Encode, tabulated)
CodeTable == [t \in Tuples |-> Encode(<<t[1], t[2], t[3]>>)]
CodeOf(t) == CodeTable[t]

\* codes no CreateInvitation returned: a foreign code of two numbers, and an
\* issued code with its last character changed
BogusCodes == {Encode(<<1, 1>>), <<"a", "s", "a", "s", "a", "g", "g", "c">>}

\* a well-formed code of three numbers that is never issued (user 3 manages nothing)
NeverIssuedCode == Encode(<<2, 1, 3>>)

\* DecodeWithError, tabulated over the codes the model deals in
DecodeTable == [c \in {CodeTable[t] : t \in Tuples} \cup BogusCodes \cup {NeverIssuedCode}
                  |-> DecodeWithError(c)]
Decoded(code) == DecodeTable[code]

\* a delete that reports one key deleted whether or not it was there
RedisDel_CountsAbsent(store, key, redisOk) ==
    IF redisOk THEN [err |-> FALSE, deleted |-> 1, store |-> store \ {key}]
    ELSE [err |-> TRUE, deleted |-> 0, store |-> store]

\* a lookup in place of the delete: the key stays
RedisDel_KeepsKey(store, key, redisOk) ==
    IF ~redisOk THEN [err |-> TRUE, deleted |-> 0, store |-> store]
    ELSE [err |-> FALSE, deleted |-> IF key \in store THEN 1 ELSE 0, store |-> store]

\* DEL key: removes the key and reports how many keys it removed, in one step
RedisDel(store, key, redisOk) ==
    IF ~redisOk THEN [err |-> TRUE, deleted |-> 0, store |-> store]
    ELSE [err |-> FALSE,
          deleted |-> IF key \in store THEN 1 ELSE 0,
          store |-> store \ {key}]

\* SET key "1" EX 24h
RedisSet(store, key, redisOk) ==
    IF ~redisOk THEN [err |-> TRUE, store |-> store]
    ELSE [err |-> FALSE, store |-> store \cup {key}]

CreateInvitation(store, userID, apartmentID, managerID, redisOk) ==
    LET code == CodeOf(<<userID, apartmentID, managerID>>)
        set == RedisSet(store, redisKey(userID, apartmentID, managerID), redisOk)
    IN IF set.err THEN [code |-> <<>>, err |-> TRUE, store |-> store]
       ELSE [code |-> code, err |-> FALSE, store |-> set.store]

\* an absent entry reported as a tampered code
ValidateAndConsumeInvitation_AbsentIsInvalid(store, code, redisOk) ==
    LET d == Decoded(code)
    IN IF d.err \/ Len(d.ids) # 3
       THEN [apartmentID |-> 0, err |-> ErrInvalidCode, store |-> store]
       ELSE LET del == RedisDel(store, redisKey(d.ids[1], d.ids[2], d.ids[3]), redisOk)
            IN IF del.err THEN [apartmentID |-> 0, err |-> ErrRedis, store |-> store]
               ELSE IF del.deleted = 0
                    THEN [apartmentID |-> 0, err |-> ErrInvalidCode, store |-> del.store]
                    ELSE [apartmentID |-> d.ids[2], err |-> "", store |-> del.store]

\* the decoded apartment id returned along with the error
ValidateAndConsumeInvitation_IdOnFailure(store, code, redisOk) ==
    LET d == Decoded(code)
    IN IF d.err \/ Len(d.ids) # 3
       THEN [apartmentID |-> 0, err |-> ErrInvalidCode, store |-> store]
       ELSE LET del == RedisDel(store, redisKey(d.ids[1], d.ids[2], d.ids[3]), redisOk)
            IN IF del.err THEN [apartmentID |-> d.ids[2], err |-> ErrRedis, store |-> store]
               ELSE IF del.deleted = 0
                    THEN [apartmentID |-> d.ids[2], err |-> ErrNotFound, store |-> del.store]
                    ELSE [apartmentID |-> d.ids[2], err |-> "", store |-> del.store]

\* the consumption returning the first decoded id (the invitee) as the apartment
ValidateAndConsumeInvitation_WrongId(store, code, redisOk) ==
    LET d == Decoded(code)
    IN IF d.err \/ Len(d.ids) # 3
       THEN [apartmentID |-> 0, err |-> ErrInvalidCode, store |-> store]
       ELSE LET del == RedisDel(store, redisKey(d.ids[1], d.ids[2], d.ids[3]), redisOk)
            IN IF del.err THEN [apartmentID |-> 0, err |-> ErrRedis, store |-> store]
               ELSE IF del.deleted = 0
                    THEN [apartmentID |-> 0, err |-> ErrNotFound, store |-> del.store]
                    ELSE [apartmentID |-> d.ids[1], err |-> "", store |-> del.store]

ValidateAndConsumeInvitation(store, code, redisOk) ==
    LET d == Decoded(code)
    IN IF d.err \/ Len(d.ids) # 3
       THEN [apartmentID |-> 0, err |-> ErrInvalidCode, store |-> store]
       ELSE LET del == RedisDel(store, redisKey(d.ids[1], d.ids[2], d.ids[3]), redisOk)
            IN IF del.err THEN [apartmentID |-> 0, err |-> ErrRedis, store |-> store]
               ELSE IF del.deleted = 0
                    THEN [apartmentID |-> 0, err |-> ErrNotFound, store |-> del.store]
                    ELSE [apartmentID |-> d.ids[2], err |-> "", store |-> del.store]

\* the codes a caller may present: every code issued so far, and the bogus ones
PresentableCodes ==
    {CodeOf(t) : t \in {u \in Tuples : puts[u] > 0}} \cup BogusCodes \cup {NeverIssuedCode}


\* -------------------------------------------------------- payment status

Pending == "pending"
Paid == "paid"

ErrPayment == "payment failed"
ErrUpdate == "failed to update payments status"
ErrBatchPayment == "batch payment failed"
ErrInternal == "internal server error"

\* the statements of the transaction up to the n-th: UPDATE payments SET
\* payment_status, paid_at WHERE id = :id (no row, no change)
RECURSIVE ApplyUpdates(_, _, _)
ApplyUpdates(table, updates, n) ==
    IF n = 0 THEN table
    ELSE LET t == ApplyUpdates(table, updates, n - 1)
             u == updates[n]
         IN IF u.id \in DOMAIN t
            THEN [t EXCEPT ![u.id] = [@ EXCEPT !.payment_status = u.payment_status,
                                               !.paid_at = u.paid_at]]
            ELSE t

\* what goes wrong in a transaction: nothing, BeginTxx, the at-th statement, Commit
Faults(n) == {NoFault, [kind |-> "begin", at |-> 0], [kind |-> "commit", at |-> 0]}
                \cup {[kind |-> "stmt", at |-> k] : k \in 1..n}

\* the transaction without its rollback: the statements before the failing one stay
UpdatePaymentsStatus_NoRollback(table, updates, fault) ==
    IF fault.kind = "begin" THEN [err |-> TRUE, table |-> table]
    ELSE IF fault.kind = "stmt"
         THEN [err |-> TRUE, table |-> ApplyUpdates(table, updates, fault.at - 1)]
    ELSE IF fault.kind = "commit" THEN [err |-> FALSE, table |-> table]
    ELSE [err |-> FALSE, table |-> ApplyUpdates(table, updates, Len(updates))]

\* UpdatePaymentsStatus: one transaction. When BeginTxx fails its error is
\* returned; when a statement fails the deferred function rolls back and the
\* error is returned; when Commit fails its error is assigned to the local err
\* after the return value (nil) was set
UpdatePaymentsStatus(table, updates, fault) ==
    IF fault.kind = "begin" THEN [err |-> TRUE, table |-> table]
    ELSE IF fault.kind = "stmt" THEN [err |-> TRUE, table |-> table]
    ELSE IF fault.kind = "commit" THEN [err |-> FALSE, table |-> table]
    ELSE [err |-> FALSE, table |-> ApplyUpdates(table, updates, Len(updates))]

\* ------------------------------------------------------ idempotency gate

billPaymentKey(paymentID, idempotentKey) == <<"bill_payment", paymentID, idempotentKey>>

\* redis.Exists(key).Val() > 0: Val() is 0 when the command fails
RedisExists(store, key, redisOk) == redisOk /\ key \in store

\* -------------------------------------------------------------- PayBills

\* where the gate loop goes after the i-th id
GateNext(i, ids) == IF i > Len(ids) THEN "update" ELSE "exists"

\* the service ignoring the gate's error
OnGateError_GoesOn(rec) == [rec EXCEPT !.pc = "update", !.gateFailed = TRUE]

\* billServiceImpl.PayBills when paymentService.PayBills returns an error
OnGateError(rec) ==
    [rec EXCEPT !.pc = "done", !.gateFailed = TRUE,
                !.result = IF rec.batch THEN ErrBatchPayment ELSE ErrPayment]

\* the payments the service hands to UpdatePaymentsStatus: every requested id
BuildUpdates(ids, now) ==
    [k \in DOMAIN ids |-> [id |-> ids[k], payment_status |-> Paid, paid_at |-> now]]

\* two residents' shares of one bill of 100.00, as DivideAllBills leaves them
InitPayments ==
    (1 :> [bill_id |-> 1, user_id |-> 1, amount |-> 5000, payment_status |-> Pending, paid_at |-> 0]) @@
    (2 :> [bill_id |-> 1, user_id |-> 2, amount |-> 5000, payment_status |-> Pending, paid_at |-> 0])

InitPay ==
    /\ apartments = {1}
    /\ user_apartments = {[user_id |-> 1, apartment_id |-> 1, is_manager |-> TRUE],
                          [user_id |-> 2, apartment_id |-> 1, is_manager |-> FALSE]}
    /\ redis = {}
    /\ join = [p \in JoinCalls |-> IdleJoin]
    /\ puts = [t \in Tuples |-> 0]
    /\ expired = {}
    /\ payments = InitPayments
    /\ pay = [p \in PayCalls |-> IdlePay]
    /\ clock = 0
    /\ bills = <<>>
    /\ div = [d \in DivCalls |-> IdleDiv]
    /\ invite = [c \in InviteCalls |-> IdleInvite]
    /\ codec = IdleCodec

\* a PayBills request arrives
PayStart(p) ==
    /\ pay[p].pc = "idle"
    /\ \E userID \in {1, 2}, ids \in IdLists, key \in IdemKeys :
          pay' = [pay EXCEPT ![p] = [IdlePay EXCEPT !.pc = GateNext(1, ids), !.userID = userID,
                                        !.paymentIDs = ids, !.key = key, !.i = 1,
                                        !.after = {q \in PayCalls : pay[q].pc = "done"}]]
    /\ UNCHANGED <<inviteVars, invite, codec, divVars, redis, payments, clock>>

\* paymentImpl.PayBills, the Exists of the i-th id
PayExists(p) ==
    /\ pay[p].pc = "exists"
    /\ \E redisOk \in BOOLEAN :
          LET id == pay[p].paymentIDs[pay[p].i]
          IN pay' = [pay EXCEPT ![p] =
                IF RedisExists(redis, billPaymentKey(id, pay[p].key), redisOk)
                THEN [@ EXCEPT !.i = @ + 1, !.pc = GateNext(pay[p].i + 1, pay[p].paymentIDs)]
                ELSE [@ EXCEPT !.pc = "set", !.firstUse = @ \cup {id}]]
    /\ UNCHANGED <<inviteVars, invite, codec, divVars, redis, payments, clock>>

\* paymentImpl.PayBills, the Set of the i-th id
PaySet(p) ==
    /\ pay[p].pc = "set"
    /\ \E redisOk \in BOOLEAN :
          LET set == RedisSet(redis, billPaymentKey(pay[p].paymentIDs[pay[p].i], pay[p].key), redisOk)
          IN /\ redis' = set.store
             /\ pay' = [pay EXCEPT ![p] =
                   IF set.err THEN OnGateError(@)
                   ELSE [@ EXCEPT !.i = @ + 1, !.pc = GateNext(pay[p].i + 1, pay[p].paymentIDs)]]
    /\ UNCHANGED <<inviteVars, invite, codec, divVars, payments, clock>>

\* the update of only the ids whose key the gate did not find
PayUpdate_OnlyFirstUse(p) ==
    /\ pay[p].pc = "update"
    /\ \E fault \in Faults(Len(pay[p].paymentIDs)) :
          LET upd == UpdatePaymentsStatus(payments,
                        BuildUpdates(SelectSeq(pay[p].paymentIDs,
                                               LAMBDA id : id \in pay[p].firstUse),
                                     clock + 1), fault)
          IN /\ payments' = upd.table
             /\ pay' = [pay EXCEPT ![p] =
                   [@ EXCEPT !.pc = "done", !.updated = TRUE, !.fault = fault,
                             !.result = IF upd.err THEN ErrUpdate ELSE "ok",
                             !.wrote = {id \in DOMAIN payments : upd.table[id] # payments[id]}]]
    /\ clock' = clock + 1
    /\ UNCHANGED <<inviteVars, invite, codec, divVars, redis>>

\* billServiceImpl.PayBills after the gate: UpdatePaymentsStatus on every id
PayUpdate(p) ==
    /\ pay[p].pc = "update"
    /\ \E fault \in Faults(Len(pay[p].paymentIDs)) :
          LET upd == UpdatePaymentsStatus(payments,
                        BuildUpdates(pay[p].paymentIDs, clock + 1), fault)
          IN /\ payments' = upd.table
             /\ pay' = [pay EXCEPT ![p] =
                   [@ EXCEPT !.pc = "done", !.updated = TRUE, !.fault = fault,
                             !.result = IF upd.err THEN ErrUpdate ELSE "ok",
                             !.wrote = {id \in DOMAIN payments : upd.table[id] # payments[id]}]]
    /\ clock' = clock + 1
    /\ UNCHANGED <<inviteVars, invite, codec, divVars, redis>>

NextPay ==
    \/ \E p \in PayCalls : PayStart(p)
    \/ \E p \in PayCalls : PayExists(p)
    \/ \E p \in PayCalls : PaySet(p)
    \/ \E p \in PayCalls : PayUpdate(p)

SpecPay == InitPay /\ [][NextPay]_vars

\* C3: a PayBills call that follows a finished, successful call with the same
\* payment ids and the same idempotency key writes no payment row
C3_RepeatDoesNotWrite ==
    \A p \in PayCalls, q \in PayCalls :
        (/\ q \in pay[p].after /\ pay[q].result = "ok"
         /\ pay[p].paymentIDs = pay[q].paymentIDs /\ pay[p].key = pay[q].key
         /\ pay[p].pc = "done") => pay[p].wrote = {}

\* C4: for each (payment id, idempotency key) at most one call finds the pair
\* not yet recorded
C4_OneFirstUse ==
    \A id \in DOMAIN payments, key \in IdemKeys :
        Cardinality({p \in PayCalls : pay[p].key = key /\ id \in pay[p].firstUse}) <= 1

\* C5: a call writes only rows of ids whose (id, key) its gate found not yet
\* recorded
C5_WritesOnlyFirstUse ==
    \A p \in PayCalls : pay[p].wrote \subseteq pay[p].firstUse

\* C6: a call whose gate returned an error returns "payment failed", never
\* reaches UpdatePaymentsStatus and changes no payment row
C6_GateErrorStopsPayment ==
    \A p \in PayCalls :
        pay[p].gateFailed =>
            /\ pay[p].pc = "done" /\ pay[p].result = ErrPayment
            /\ ~pay[p].updated /\ pay[p].wrote = {}

\* the gate failed on the second id of a call, after it recorded the first
C6_Witness ==
    \E p \in PayCalls :
        /\ pay[p].gateFailed /\ pay[p].result = ErrPayment /\ pay[p].i = 2
        /\ billPaymentKey(pay[p].paymentIDs[1], pay[p].key) \in redis
        /\ \A id \in DOMAIN payments : payments[id].payment_status = Pending

\* C7: an UpdatePaymentsStatus in which a statement (or BeginTxx) fails returns
\* the error and leaves every payment row as it was
C7_UpdateAllOrNothing ==
    [][\A p \in PayCalls :
          (pay[p].pc = "update" /\ pay'[p].pc = "done") =>
              /\ pay'[p].fault.kind \in {"begin", "stmt"}
                    => (pay'[p].result = ErrUpdate /\ payments' = payments)
              /\ pay'[p].result = ErrUpdate => payments' = payments]_vars

\* the second statement of a two-payment transaction failed
C7_Witness ==
    \E p \in PayCalls :
        /\ pay[p].pc = "done" /\ pay[p].fault = [kind |-> "stmt", at |-> 2] /\ pay[p].result = ErrUpdate
        /\ Len(pay[p].paymentIDs) = 2
        /\ \A id \in DOMAIN payments : payments[id].payment_status = Pending

\* C24: when no payment call is in flight, every idempotency record in the store
\* is of a payment row that exists and is paid
C24_RecordMeansPaid ==
    (\A p \in PayCalls : pay[p].pc \in {"idle", "done"}) =>
        \A k \in redis :
            /\ k[2] \in DOMAIN payments
            /\ payments[k[2]].payment_status = Paid

\* C25: the rows a PayBills call changes are rows of the calling user
C25_PaysOwnRowsOnly ==
    \A p \in PayCalls : \A id \in pay[p].wrote : payments[id].user_id = pay[p].userID

\* C26: when the status update of a PayBills call ends without error, every
\* requested id that has a row is paid in the table the call leaves
C26_SuccessMeansPaid ==
    [][\A p \in PayCalls :
          (pay[p].pc = "update" /\ pay'[p].pc = "done" /\ pay'[p].result = "ok") =>
              \A id \in Range(pay[p].paymentIDs) \cap DOMAIN payments :
                  payments'[id].payment_status = Paid]_vars

\* q failed in UpdatePaymentsStatus after its gate recorded every id, and p is a
\* later call with the same ids and key whose update went through
RetryAfterFailedWrite(p, q) ==
    /\ q \in pay[p].after /\ pay[q].result = ErrUpdate
    /\ pay[q].firstUse = Range(pay[q].paymentIDs)
    /\ pay[p].paymentIDs = pay[q].paymentIDs /\ pay[p].key = pay[q].key
    /\ pay[p].pc = "done" /\ pay[p].result = "ok" /\ pay[p].fault = NoFault

\* C27: after a PayBills call that recorded its ids in the gate and then failed
\* in the status update, a retry with the same ids and key whose update succeeds
\* leaves every one of those payments paid
C27_RetryPays ==
    \A p \in PayCalls, q \in PayCalls :
        RetryAfterFailedWrite(p, q) =>
            \A id \in Range(pay[p].paymentIDs) : payments[id].payment_status = Paid

\* the second statement of the first call's transaction failed; the retry found
\* both keys recorded and still wrote both rows
C27_Witness ==
    \E p \in PayCalls, q \in PayCalls :
        /\ RetryAfterFailedWrite(p, q) /\ pay[q].fault = [kind |-> "stmt", at |-> 2]
        /\ pay[p].paymentIDs = <<1, 2>> /\ pay[p].firstUse = {} /\ pay[p].wrote = {1, 2}
        /\ \A id \in {1, 2} : payments[id].payment_status = Paid

\* C20: a payment row that a finished call has set to paid is left as it is, status
\* and paid_at, by the update of a later call that names its id under another
\* idempotency key
C20_PaidIsTerminal ==
    [][\A p \in PayCalls, q \in PayCalls, id \in DOMAIN payments :
          (/\ pay[p].pc = "update" /\ pay'[p].pc = "done"
           /\ q \in pay[p].after /\ id \in pay[q].wrote /\ pay[q].key # pay[p].key
           /\ id \in Range(pay[p].paymentIDs)
           /\ payments[id].payment_status = Paid)
          => /\ payments'[id].payment_status = payments[id].payment_status
             /\ payments'[id].paid_at = payments[id].paid_at]_vars

\* --------------------------------------------------------- PayBatchBills

\* the length paymentIds is made with, before the pending ids are appended
BatchSlots == 10

\* three shares: user 1 owes for two bills, user 2 for one
BatchPayments ==
    (1 :> [bill_id |-> 1, user_id |-> 1, amount |-> 5000, payment_status |-> Pending, paid_at |-> 0]) @@
    (2 :> [bill_id |-> 1, user_id |-> 2, amount |-> 5000, payment_status |-> Pending, paid_at |-> 0]) @@
    (3 :> [bill_id |-> 2, user_id |-> 1, amount |-> 100, payment_status |-> Pending, paid_at |-> 0])

\* the ids of a set in rising order
InIdOrder(S) ==
    CHOOSE s \in [1..Cardinality(S) -> S] : \A i, j \in 1..Cardinality(S) : i < j => s[i] < s[j]

\* GetPendingPaymentsByUser: the user's rows whose status is pending
GetPendingPaymentsByUser(table, userID) ==
    InIdOrder({id \in DOMAIN table :
                  table[id].user_id = userID /\ table[id].payment_status = Pending})

\* totalAmount after the first n payments of the loop
RECURSIVE SumAmounts(_, _, _)
SumAmounts(table, ids, n) ==
    IF n = 0 THEN 0 ELSE SumAmounts(table, ids, n - 1) + table[ids[n]].amount

\* paymentIds as PayBatchBills builds it: make([]int, 10), then one append for
\* each pending payment
PaymentIds(pending) == [k \in 1..BatchSlots |-> 0] \o pending

InitBatch ==
    /\ apartments = {1}
    /\ user_apartments = {[user_id |-> 1, apartment_id |-> 1, is_manager |-> TRUE],
                          [user_id |-> 2, apartment_id |-> 1, is_manager |-> FALSE]}
    /\ redis = {}
    /\ join = [p \in JoinCalls |-> IdleJoin]
    /\ puts = [t \in Tuples |-> 0]
    /\ expired = {}
    /\ payments = BatchPayments
    /\ pay = [p \in PayCalls |-> IdlePay]
    /\ clock = 0
    /\ bills = <<>>
    /\ div = [d \in DivCalls |-> IdleDiv]
    /\ invite = [c \in InviteCalls |-> IdleInvite]
    /\ codec = IdleCodec

\* PayBatchBills up to the call of the gate
PayBatchBills(p) ==
    /\ pay[p].pc = "idle"
    /\ \E userID \in {1, 2}, key \in IdemKeys, dbOk \in BOOLEAN :
          LET pending == GetPendingPaymentsByUser(payments, userID)
              ids == PaymentIds(pending)
              rec == [IdlePay EXCEPT !.batch = TRUE, !.userID = userID, !.key = key,
                                     !.after = {q \in PayCalls : pay[q].pc = "done"}]
          IN pay' = [pay EXCEPT ![p] =
                IF ~dbOk THEN [rec EXCEPT !.pc = "done", !.result = ErrInternal]
                ELSE [rec EXCEPT !.pc = GateNext(1, ids), !.paymentIDs = ids, !.i = 1,
                                 !.pending = pending,
                                 !.totalAmount = SumAmounts(payments, pending, Len(pending))]]
    /\ UNCHANGED <<inviteVars, invite, codec, divVars, redis, payments, clock>>

NextBatch ==
    \/ \E p \in PayCalls : PayBatchBills(p)
    \/ \E p \in PayCalls : PayExists(p)
    \/ \E p \in PayCalls : PaySet(p)
    \/ \E p \in PayCalls : PayUpdate(p)

SpecBatch == InitBatch /\ [][NextBatch]_vars

\* C18: the ids a PayBatchBills call hands to the gate and to
\* UpdatePaymentsStatus are exactly the ids of the caller's pending payments,
\* and its total is the sum of their amounts
C18_BatchPaysOnlyPending ==
    \A p \in PayCalls :
        (pay[p].batch /\ pay[p].result # ErrInternal /\ pay[p].pc # "idle") =>
            /\ Range(pay[p].paymentIDs) = Range(pay[p].pending)
            /\ pay[p].totalAmount =
                  SumAmounts(BatchPayments, pay[p].pending, Len(pay[p].pending))

\* ------------------------------------------------------------ bill division

ErrVerifyManager == "failed to verify manager status"
ErrOnlyManagers == "only apartment managers can divide bills"
ErrGetResidents == "failed to get residents"
ErrNoResidents == "no residents found in apartment"
ErrGetBills == "failed to get bills"
ErrNoUndivided == "no undivided bills found in apartment"
ErrNoUndividedOfType == "no undivided bills of type found"

\* SELECT u.id ... JOIN user_apartments ... WHERE ua.apartment_id = $1: every
\* member, the manager included
GetResidentsInApartment(table, apartmentID) ==
    {r.user_id : r \in {x \in table : x.apartment_id = apartmentID}}

\* the bills of the apartment that have a payment row
DividedBills(billTable, payTable, apartmentID) ==
    {i \in DOMAIN billTable :
        /\ billTable[i].apartment_id = apartmentID
        /\ \E p \in DOMAIN payTable : payTable[p].bill_id = i}

\* the query returning every bill of the apartment
GetUndividedBillsByApartment_AllBills(billTable, payTable, apartmentID) ==
    SelectSeq([i \in DOMAIN billTable |-> i],
              LAMBDA i : billTable[i].apartment_id = apartmentID)

\* WHERE b.apartment_id = $1 AND NOT EXISTS (SELECT 1 FROM payments p WHERE
\* p.bill_id = b.id) ORDER BY b.created_at ASC
GetUndividedBillsByApartment(billTable, payTable, apartmentID) ==
    SelectSeq([i \in DOMAIN billTable |-> i],
              LAMBDA i : /\ billTable[i].apartment_id = apartmentID
                         /\ ~\E p \in DOMAIN payTable : payTable[p].bill_id = i)

\* the same with AND b.bill_type = $2
GetUndividedBillsByTypeAndApartment(billTable, payTable, apartmentID, billType) ==
    SelectSeq(GetUndividedBillsByApartment(billTable, payTable, apartmentID),
              LAMBDA i : billTable[i].bill_type = billType)

\* existingPayment != nil: Get returns nil with an error when there is no row
\* and when the query fails; the error is dropped
GetPaymentByBillAndUser(payTable, billID, userID, dbOk) ==
    dbOk /\ \E p \in DOMAIN payTable :
                payTable[p].bill_id = billID /\ payTable[p].user_id = userID

\* INSERT INTO payments ... RETURNING id: id is SERIAL, and no constraint on
\* (bill_id, user_id)
CreatePayment(payTable, row, dbOk) ==
    IF dbOk THEN [err |-> FALSE, id |-> Len(payTable) + 1, table |-> Append(payTable, row)]
    ELSE [err |-> TRUE, id |-> 0, table |-> payTable]

\* the share cut off after two decimals
AmountPerResident_Truncates(totalAmount, n) == {totalAmount \div n}

\* fmt.Sprintf("%.2f", bill.TotalAmount / float64(len(residents))), in
\* hundredths: the nearest hundredth; the float of an exact half lies on either
\* side of it
AmountPerResident(totalAmount, n) ==
    LET q == totalAmount \div n
        r == totalAmount % n
    IN IF 2 * r < n THEN {q}
       ELSE IF 2 * r > n THEN {q + 1}
       ELSE {q, q + 1}

\* the start of a division up to its loop: manager check, residents, undivided
\* bills. fail names the query that fails, if any
DivideStart(rec, userID, apartmentID, kind, fail) ==
    LET m == IsUserManagerOfApartment(user_apartments, userID, apartmentID, fail # "manager")
        residents == GetResidentsInApartment(user_apartments, apartmentID)
        undivided == IF kind = "all"
                     THEN GetUndividedBillsByApartment(bills, payments, apartmentID)
                     ELSE GetUndividedBillsByTypeAndApartment(bills, payments, apartmentID, kind)
        r == [rec EXCEPT !.userID = userID, !.apartmentID = apartmentID, !.kind = kind,
                         !.fail = fail, !.pc = "done"]
    IN IF m.err # "" THEN [r EXCEPT !.result = ErrVerifyManager]
       ELSE IF ~m.isManager THEN [r EXCEPT !.result = ErrOnlyManagers]
       ELSE IF fail = "residents" THEN [r EXCEPT !.result = ErrGetResidents]
       ELSE IF residents = {} THEN [r EXCEPT !.result = ErrNoResidents]
       ELSE IF fail = "bills" THEN [r EXCEPT !.result = ErrGetBills]
       ELSE IF undivided = <<>>
            THEN [r EXCEPT !.result = IF kind = "all" THEN ErrNoUndivided
                                      ELSE ErrNoUndividedOfType]
       ELSE [r EXCEPT !.pc = "check", !.residents = residents, !.n = Cardinality(residents),
                      !.bills = undivided, !.b = 1, !.todo = residents]

\* every bill closed as processed, whatever happened to its inserts
NextResident_AlwaysProcessed(rec) ==
    IF rec.todo # {} THEN [rec EXCEPT !.pc = "check"]
    ELSE LET closed == [rec EXCEPT !.processedBills = Append(@, rec.bills[rec.b])]
         IN IF rec.b = Len(rec.bills)
            THEN [closed EXCEPT !.pc = "done", !.result = "ok"]
            ELSE [closed EXCEPT !.pc = "check", !.b = @ + 1, !.todo = rec.residents,
                                !.billProcessed = TRUE]

\* after a resident of the current bill: the next resident, or the end of the
\* bill (processedBills / failedBills) and the next bill, or the response
NextResident(rec) ==
    IF rec.todo # {} THEN [rec EXCEPT !.pc = "check"]
    ELSE LET closed == IF rec.billProcessed
                       THEN [rec EXCEPT !.processedBills = Append(@, rec.bills[rec.b])]
                       ELSE [rec EXCEPT !.failedBills = Append(@, rec.bills[rec.b])]
         IN IF rec.b = Len(rec.bills)
            THEN [closed EXCEPT !.pc = "done", !.result = "ok"]
            ELSE [closed EXCEPT !.pc = "check", !.b = @ + 1, !.todo = rec.residents,
                                !.billProcessed = TRUE]

InitDivide ==
    /\ apartments = {1}
    /\ \E sc \in Scenarios : user_apartments = sc.members /\ bills = sc.bills
    /\ redis = {}
    /\ join = [p \in JoinCalls |-> IdleJoin]
    /\ puts = [t \in Tuples |-> 0]
    /\ expired = {}
    /\ payments = <<>>
    /\ pay = [p \in PayCalls |-> IdlePay]
    /\ clock = 0
    /\ div = [d \in DivCalls |-> IdleDiv]
    /\ invite = [c \in InviteCalls |-> IdleInvite]
    /\ codec = IdleCodec

\* DivideAllBills (kind "all") or DivideBillByType (kind a bill type) up to the loop
DivStart(d) ==
    /\ div[d].pc = "idle"
    /\ \E userID \in {1, 2}, apartmentID \in apartments, kind \in {"all"} \cup BillTypes,
          fail \in {"none", "manager", "residents", "bills"} :
          div' = [div EXCEPT ![d] =
                    DivideStart([IdleDiv EXCEPT !.after = {q \in DivCalls : div[q].pc = "done"},
                                                !.dividedAtStart =
                                                    DividedBills(bills, payments, apartmentID)],
                                userID, apartmentID, kind, fail)]
    /\ UNCHANGED <<inviteVars, invite, codec, redis, payVars, bills>>

\* the loop body up to the insert: GetPaymentByBillAndUser for one resident
DivCheck(d) ==
    /\ div[d].pc = "check"
    /\ \E resident \in div[d].todo, dbOk \in BOOLEAN :
          div' = [div EXCEPT ![d] =
                    IF GetPaymentByBillAndUser(payments, div[d].bills[div[d].b], resident, dbOk)
                    THEN NextResident([@ EXCEPT !.todo = @ \ {resident}])
                    ELSE [@ EXCEPT !.pc = "insert", !.resident = resident]]
    /\ UNCHANGED <<inviteVars, invite, codec, redis, payVars, bills>>

\* the rest of the loop body: CreatePayment of the resident's pending share
DivInsert(d) ==
    /\ div[d].pc = "insert"
    /\ \E dbOk \in BOOLEAN,
          amount \in AmountPerResident(bills[div[d].bills[div[d].b]].total_amount, div[d].n) :
          LET row == [bill_id |-> div[d].bills[div[d].b], user_id |-> div[d].resident,
                      amount |-> amount, payment_status |-> Pending, paid_at |-> 0]
              ins == CreatePayment(payments, row, dbOk)
              rec == [div[d] EXCEPT !.todo = @ \ {div[d].resident}, !.resident = 0]
          IN /\ payments' = ins.table
             /\ div' = [div EXCEPT ![d] =
                   IF ins.err
                   THEN NextResident([rec EXCEPT !.billProcessed = FALSE,
                                                 !.totalFailedPayments = @ + 1])
                   ELSE NextResident([rec EXCEPT !.created = @ \cup {ins.id}])]
    /\ UNCHANGED <<inviteVars, invite, codec, redis, pay, clock, bills>>

NextDivide ==
    \/ \E d \in DivCalls : DivStart(d)
    \/ \E d \in DivCalls : DivCheck(d)
    \/ \E d \in DivCalls : DivInsert(d)

SpecDivide == InitDivide /\ [][NextDivide]_vars

\* q is a DivideAllBills call that returned a response, and p the same
\* manager's undisturbed DivideAllBills call on the same apartment, begun after q
\* returned and itself returned
SecondAfterFirst(p, q) ==
    /\ q \in div[p].after /\ div[p].pc = "done"
    /\ div[q].kind = "all" /\ div[p].kind = "all"
    /\ div[q].result = "ok" /\ div[p].fail = "none"
    /\ div[p].userID = div[q].userID /\ div[p].apartmentID = div[q].apartmentID

\* the payment rows of a bill for a user
RowsOf(billID, userID) ==
    {id \in DOMAIN payments : payments[id].bill_id = billID /\ payments[id].user_id = userID}

\* C8 as stated: the second of two DivideAllBills calls in sequence creates no
\* payment row and returns a response with no processed bill
C8_SecondCallReportsZero ==
    \A p \in DivCalls, q \in DivCalls :
        SecondAfterFirst(p, q) =>
            /\ div[p].created = {}
            /\ div[p].result = "ok" /\ div[p].processedBills = <<>>

\* C8: a division creates no payment row for a bill that had one when the
\* division started; and after a DivideAllBills call that reported no failed
\* bill, the second call creates no row and fails with "no undivided bills
\* found in apartment"
C8_SecondCallFindsNothing ==
    /\ \A p \in DivCalls : \A id \in div[p].created :
            payments[id].bill_id \notin div[p].dividedAtStart
    /\ \A p \in DivCalls, q \in DivCalls :
            (SecondAfterFirst(p, q) /\ div[q].failedBills = <<>>) =>
                div[p].created = {} /\ div[p].result = ErrNoUndivided

\* the first call divided every bill, the second created nothing and failed
C8_Witness ==
    \E p \in DivCalls, q \in DivCalls :
        /\ SecondAfterFirst(p, q) /\ div[q].failedBills = <<>>
        /\ Len(div[q].processedBills) = Len(bills) /\ div[q].created # {}
        /\ div[p].created = {} /\ div[p].result = ErrNoUndivided

\* C9 as stated: for every bill a division processed, each resident has exactly
\* one payment row, pending, of exactly totalAmount / |R|
C9_ExactShares ==
    \A d \in DivCalls :
        (div[d].pc = "done" /\ div[d].result = "ok") =>
            \A k \in DOMAIN div[d].processedBills : \A u \in div[d].residents :
                LET b == div[d].processedBills[k]
                IN /\ Cardinality(RowsOf(b, u)) = 1
                   /\ \A id \in RowsOf(b, u) :
                         /\ payments[id].payment_status = Pending
                         /\ payments[id].amount * div[d].n = bills[b].total_amount

\* C9: every payment row a division creates is pending and its amount is the
\* hundredth nearest to totalAmount / |R|; a division creates at most one row
\* for a (bill, resident) pair; and for every bill a division reports as
\* processed each resident has a payment row
C9_RoundedShares ==
    \A d \in DivCalls :
        /\ \A id \in div[d].created :
              LET diff == payments[id].amount * div[d].n - bills[payments[id].bill_id].total_amount
              IN /\ payments[id].payment_status = Pending /\ payments[id].paid_at = 0
                 /\ payments[id].user_id \in div[d].residents
                 /\ 2 * diff <= div[d].n /\ 2 * (0 - diff) <= div[d].n
        /\ \A id1 \in div[d].created, id2 \in div[d].created :
              (/\ payments[id1].bill_id = payments[id2].bill_id
               /\ payments[id1].user_id = payments[id2].user_id) => id1 = id2
        /\ (div[d].pc = "done" /\ div[d].result = "ok") =>
              \A k \in DOMAIN div[d].processedBills : \A u \in div[d].residents :
                  RowsOf(div[d].processedBills[k], u) # {}

\* a bill of 2.00 divided among three residents: three pending rows of 0.67
C9_Witness ==
    \E d \in DivCalls :
        /\ div[d].pc = "done" /\ div[d].result = "ok" /\ div[d].n = 3
        /\ div[d].processedBills = <<1>> /\ bills[1].total_amount = 200
        /\ Cardinality(div[d].created) = 3
        /\ \A id \in div[d].created : payments[id].amount = 67

\* the step of d is a CreatePayment that failed
InsertFails(d) ==
    /\ div[d].pc = "insert" /\ div'[d].totalFailedPayments = div[d].totalFailedPayments + 1

\* C21: a division goes on after a failed insert: with residents of the bill left
\* it checks the next of them, with bills left it starts the next bill with all
\* residents, otherwise it returns a response and no error; the bill is closed
\* in failed_bills and not in processed_bills; and in a response every bill the
\* division read is in exactly one of the two lists, each resident having a row
\* for every bill outside failed_bills
C21_FailedInsertGoesOn ==
    [][\A d \in DivCalls :
          LET bill == div[d].bills[div[d].b]
              left == div[d].todo \ {div[d].resident}
          IN /\ InsertFails(d) =>
                   /\ payments' = payments
                   /\ left # {} =>
                         /\ div'[d].pc = "check" /\ div'[d].b = div[d].b /\ div'[d].todo = left
                         /\ ~div'[d].billProcessed
                   /\ left = {} =>
                         /\ bill \in Range(div'[d].failedBills)
                         /\ bill \notin Range(div'[d].processedBills)
                         /\ div[d].b < Len(div[d].bills) =>
                               /\ div'[d].pc = "check" /\ div'[d].b = div[d].b + 1
                               /\ div'[d].todo = div[d].residents
                         /\ div[d].b = Len(div[d].bills) =>
                               div'[d].pc = "done" /\ div'[d].result = "ok"
             /\ (div'[d].pc = "done" /\ div'[d].result = "ok") =>
                   /\ Range(div'[d].failedBills) \cap Range(div'[d].processedBills) = {}
                   /\ Range(div'[d].failedBills) \cup Range(div'[d].processedBills)
                         = Range(div'[d].bills)
                   /\ (div'[d].totalFailedPayments > 0) = (div'[d].failedBills # <<>>)
                   /\ \A b \in Range(div'[d].processedBills), u \in div'[d].residents :
                         \E id \in DOMAIN payments' :
                             payments'[id].bill_id = b /\ payments'[id].user_id = u]_vars

\* a division of two bills returned a response: one insert of bill 1 failed and
\* the bill is in failed_bills, its other resident got a row, and bill 2 was
\* processed
C21_Witness ==
    \E d \in DivCalls :
        /\ div[d].pc = "done" /\ div[d].result = "ok" /\ div[d].totalFailedPayments = 1
        /\ div[d].failedBills = <<1>> /\ div[d].processedBills = <<2>>
        /\ \E id \in div[d].created : payments[id].bill_id = 1
        /\ \E id \in div[d].created : payments[id].bill_id = 2

\* C22: no two payment rows have the same bill and the same user
C22_OneRowPerPair ==
    \A id1 \in DOMAIN payments, id2 \in DOMAIN payments :
        (/\ payments[id1].bill_id = payments[id2].bill_id
         /\ payments[id1].user_id = payments[id2].user_id) => id1 = id2

\* C28: when a division closed a bill in failed_bills, after a later
\* DivideAllBills call by the same manager on the same apartment, with no failing
\* query and no failing insert, every resident has a payment row for that bill
C28_LaterDivisionCompletes ==
    \A p \in DivCalls, q \in DivCalls :
        (/\ q \in div[p].after /\ div[q].result = "ok"
         /\ div[p].pc = "done" /\ div[p].kind = "all" /\ div[p].fail = "none"
         /\ div[p].totalFailedPayments = 0
         /\ div[p].userID = div[q].userID /\ div[p].apartmentID = div[q].apartmentID) =>
            \A b \in Range(div[q].failedBills), u \in div[q].residents : RowsOf(b, u) # {}

\* ------------------------------------------------------ apartment service

InitInvite ==
    /\ apartments = {}
    /\ user_apartments = {}
    /\ redis = {}
    /\ join = [p \in JoinCalls |-> IdleJoin]
    /\ puts = [t \in Tuples |-> 0]
    /\ expired = {}
    /\ payments = <<>>
    /\ pay = [p \in PayCalls |-> IdlePay]
    /\ clock = 0
    /\ bills = <<>>
    /\ div = [d \in DivCalls |-> IdleDiv]
    /\ invite = [c \in InviteCalls |-> IdleInvite]
    /\ codec = IdleCodec

\* CreateApartment: a new apartment id, then the creator's manager row
CreateApartment(userID) ==
    /\ Cardinality(apartments) < MaxApartments
    /\ LET id == Cardinality(apartments) + 1
       IN /\ apartments' = apartments \cup {id}
          /\ \E dbOk \in BOOLEAN :
                user_apartments' = CreateUserApartment(user_apartments,
                    [user_id |-> userID, apartment_id |-> id, is_manager |-> TRUE], dbOk).table
    /\ UNCHANGED <<redis, join, puts, expired, payVars, divVars, invite, codec>>

RECURSIVE SumPuts(_)
SumPuts(T) == IF T = {} THEN 0
              ELSE LET t == CHOOSE x \in T : TRUE IN puts[t] + SumPuts(T \ {t})
\* the invitation store writes so far
TotalPuts == SumPuts({t \in Tuples : puts[t] > 0})

\* the invitation written before the resident check
InviteOutcome_InvitesFirst(managerID, apartmentID, handle, dbOk, residentOk, redisOk, notifyOk) ==
    LET mgr == IsUserManagerOfApartment(user_apartments, managerID, apartmentID, dbOk)
        res == IsUserInApartment(user_apartments, handle, apartmentID, residentOk)
        inv == CreateInvitation(redis, handle, apartmentID, managerID, redisOk)
    IN IF mgr.err # "" THEN [err |-> ErrInviteVerify, store |-> redis, stored |-> FALSE, send |-> "not called"]
       ELSE IF ~mgr.isManager THEN [err |-> ErrInviteOnlyManagers, store |-> redis, stored |-> FALSE, send |-> "not called"]
       ELSE IF handle \notin Users THEN [err |-> ErrInviteNoUser, store |-> redis, stored |-> FALSE, send |-> "not called"]
       ELSE IF inv.err THEN [err |-> ErrInviteCreate, store |-> redis, stored |-> FALSE, send |-> "not called"]
       ELSE IF res.exists THEN [err |-> ErrInviteResident, store |-> inv.store, stored |-> TRUE, send |-> "not called"]
       ELSE IF ~notifyOk THEN [err |-> ErrNotify, store |-> inv.store, stored |-> TRUE, send |-> "failed"]
       ELSE [err |-> "", store |-> inv.store, stored |-> TRUE, send |-> "sent"]

\* the invitation taken back when the notification fails
InviteOutcome_UndoesOnNotifyFailure(managerID, apartmentID, handle, dbOk, residentOk, redisOk, notifyOk) ==
    LET mgr == IsUserManagerOfApartment(user_apartments, managerID, apartmentID, dbOk)
        res == IsUserInApartment(user_apartments, handle, apartmentID, residentOk)
        inv == CreateInvitation(redis, handle, apartmentID, managerID, redisOk)
    IN IF mgr.err # "" THEN [err |-> ErrInviteVerify, store |-> redis, stored |-> FALSE, send |-> "not called"]
       ELSE IF ~mgr.isManager THEN [err |-> ErrInviteOnlyManagers, store |-> redis, stored |-> FALSE, send |-> "not called"]
       ELSE IF handle \notin Users THEN [err |-> ErrInviteNoUser, store |-> redis, stored |-> FALSE, send |-> "not called"]
       ELSE IF res.exists THEN [err |-> ErrInviteResident, store |-> redis, stored |-> FALSE, send |-> "not called"]
       ELSE IF inv.err THEN [err |-> ErrInviteCreate, store |-> redis, stored |-> FALSE, send |-> "not called"]
       ELSE IF ~notifyOk THEN [err |-> ErrNotify, store |-> redis \ {redisKey(handle, apartmentID, managerID)},
                               stored |-> FALSE, send |-> "failed"]
       ELSE [err |-> "", store |-> inv.store, stored |-> TRUE, send |-> "sent"]

\* InviteUserToApartment: what the call returns and the store it leaves
InviteOutcome(managerID, apartmentID, handle, dbOk, residentOk, redisOk, notifyOk) ==
    LET mgr == IsUserManagerOfApartment(user_apartments, managerID, apartmentID, dbOk)
        res == IsUserInApartment(user_apartments, handle, apartmentID, residentOk)
        inv == CreateInvitation(redis, handle, apartmentID, managerID, redisOk)
    IN IF mgr.err # "" THEN [err |-> ErrInviteVerify, store |-> redis, stored |-> FALSE, send |-> "not called"]
       ELSE IF ~mgr.isManager THEN [err |-> ErrInviteOnlyManagers, store |-> redis, stored |-> FALSE, send |-> "not called"]
       ELSE IF handle \notin Users THEN [err |-> ErrInviteNoUser, store |-> redis, stored |-> FALSE, send |-> "not called"]
       ELSE IF res.err # "" /\ res.err # "not in apartment" THEN [err |-> ErrCheckResident, store |-> redis, stored |-> FALSE, send |-> "not called"]
       ELSE IF res.exists THEN [err |-> ErrInviteResident, store |-> redis, stored |-> FALSE, send |-> "not called"]
       ELSE IF inv.err THEN [err |-> ErrInviteCreate, store |-> redis, stored |-> FALSE, send |-> "not called"]
       ELSE IF ~notifyOk THEN [err |-> ErrNotify, store |-> inv.store, stored |-> TRUE, send |-> "failed"]
       ELSE [err |-> "", store |-> inv.store, stored |-> TRUE, send |-> "sent"]

InviteUserToApartment(managerID, apartmentID, handle) ==
    /\ TotalPuts < MaxInvites
    /\ \E fail \in {"none", "db", "resident", "redis", "notify"} :
          LET out == InviteOutcome(managerID, apartmentID, handle,
                                   fail # "db", fail # "resident", fail # "redis", fail # "notify")
          IN /\ redis' = out.store
             /\ puts' = IF out.stored
                        THEN [puts EXCEPT ![<<handle, apartmentID, managerID>>] = @ + 1]
                        ELSE puts
    /\ UNCHANGED <<apartments, user_apartments, join, expired, payVars, divVars, invite, codec>>

\* the 24h TTL of an invitation key runs out
Expire(t) ==
    /\ KeyOf(t) \in redis
    /\ redis' = redis \ {KeyOf(t)}
    /\ expired' = expired \cup {t}
    /\ UNCHANGED <<apartments, user_apartments, join, puts, payVars, divVars, invite, codec>>

\* JoinApartment going on to the resident check whatever the consumption returned,
\* with the apartment id the code names
JoinConsume_IgnoresError(p) ==
    /\ join[p].pc = "idle"
    /\ \E userID \in Users, code \in PresentableCodes, redisOk \in BOOLEAN :
          LET v == ValidateAndConsumeInvitation(redis, code, redisOk)
              d == Decoded(code)
          IN /\ redis' = v.store
             /\ join' = [join EXCEPT ![p] =
                    [pc |-> IF d.err \/ Len(d.ids) # 3 THEN "done" ELSE "check",
                     userID |-> userID, code |-> code,
                     apartmentID |-> IF d.err \/ Len(d.ids) # 3 THEN 0 ELSE d.ids[2],
                     result |-> IF d.err \/ Len(d.ids) # 3 THEN v.err ELSE "",
                     inserted |-> FALSE, notified |-> FALSE]]
    /\ UNCHANGED <<apartments, user_apartments, puts, expired, payVars, divVars, invite, codec>>

\* JoinApartment, first step: ValidateAndConsumeInvitation
JoinConsume(p) ==
    /\ join[p].pc = "idle"
    /\ \E userID \in Users, code \in PresentableCodes, redisOk \in BOOLEAN :
          LET v == ValidateAndConsumeInvitation(redis, code, redisOk)
          IN /\ redis' = v.store
             /\ join' = [join EXCEPT ![p] =
                    [pc |-> IF v.err # "" THEN "done" ELSE "check",
                     userID |-> userID, code |-> code,
                     apartmentID |-> v.apartmentID,
                     result |-> v.err, inserted |-> FALSE, notified |-> FALSE]]
    /\ UNCHANGED <<apartments, user_apartments, puts, expired, payVars, divVars, invite, codec>>

\* JoinApartment, second step: IsUserInApartment
JoinCheck(p) ==
    /\ join[p].pc = "check"
    /\ \E dbOk \in BOOLEAN :
          LET r == IsUserInApartment(user_apartments, join[p].userID, join[p].apartmentID, dbOk)
          IN join' = [join EXCEPT ![p] =
                IF r.err # "" /\ r.err # "not in apartment"
                THEN [@ EXCEPT !.pc = "done", !.result = ErrCheckResident]
                ELSE IF r.exists
                THEN [@ EXCEPT !.pc = "done", !.result = ErrAlreadyResident]
                ELSE [@ EXCEPT !.pc = "insert"]]
    /\ UNCHANGED <<apartments, user_apartments, redis, puts, expired, payVars, divVars, invite, codec>>

\* the membership row made for the invitee the code names, not for the caller
JoinInsert_ForInvitee(p) ==
    /\ join[p].pc = "insert"
    /\ \E dbOk \in BOOLEAN :
          LET c == CreateUserApartment(user_apartments,
                      [user_id |-> Decoded(join[p].code).ids[1],
                       apartment_id |-> join[p].apartmentID, is_manager |-> FALSE], dbOk)
          IN /\ user_apartments' = c.table
             /\ join' = [join EXCEPT ![p] =
                   [@ EXCEPT !.pc = "done", !.result = IF c.err THEN ErrJoin ELSE Joined,
                             !.inserted = ~c.err, !.notified = ~c.err]]
    /\ UNCHANGED <<apartments, redis, puts, expired, payVars, divVars, invite, codec>>

\* JoinApartment, last step: CreateUserApartment, notification, return
JoinInsert(p) ==
    /\ join[p].pc = "insert"
    /\ \E dbOk \in BOOLEAN :
          LET c == CreateUserApartment(user_apartments,
                      [user_id |-> join[p].userID, apartment_id |-> join[p].apartmentID,
                       is_manager |-> FALSE], dbOk)
          IN /\ user_apartments' = c.table
             /\ join' = [join EXCEPT ![p] =
                   [@ EXCEPT !.pc = "done", !.result = IF c.err THEN ErrJoin ELSE Joined,
                             !.inserted = ~c.err, !.notified = ~c.err]]
    /\ UNCHANGED <<apartments, redis, puts, expired, payVars, divVars, invite, codec>>

NextInvite ==
    \/ \E u \in Creators : CreateApartment(u)
    \/ \E m \in Users, a \in ApartmentIDs, h \in Handles : InviteUserToApartment(m, a, h)
    \/ \E t \in Tuples : Expire(t)
    \/ \E p \in JoinCalls : JoinConsume(p)
    \/ \E p \in JoinCalls : JoinCheck(p)
    \/ \E p \in JoinCalls : JoinInsert(p)

SpecInvite == InitInvite /\ [][NextInvite]_vars

\* ------------------------------------------------------------- properties

\* the call's ValidateAndConsumeInvitation returned an apartment id
Won(p) == join[p].apartmentID # 0

\* the calls that presented the code of key t and got an answer from the store
Presented(t) == {p \in JoinCalls : /\ join[p].pc # "idle"
                                    /\ join[p].code = CodeOf(t)
                                    /\ join[p].result # ErrRedis}

\* C1: of the calls that present the code of one invitation (written once, not
\* expired), exactly one has its consumption succeed and every other one gets
\* "invitation not found or already used"
C1_ExactlyOneConsumer ==
    \A t \in Tuples :
        (puts[t] = 1 /\ t \notin expired /\ Presented(t) # {}) =>
            /\ Cardinality({p \in Presented(t) : Won(p)}) = 1
            /\ \A p \in Presented(t) : ~Won(p) => join[p].result = ErrNotFound

\* two calls presented the code of one stored invitation: one got the
\* apartment id, the other "invitation not found or already used"
C1_Witness ==
    \E t \in Tuples :
        /\ puts[t] = 1 /\ t \notin expired
        /\ Cardinality(Presented(t)) = 2
        /\ \E p \in Presented(t) : Won(p)
        /\ \E p \in Presented(t) : join[p].result = ErrNotFound

\* C2: a consumption of an issued code while its invitation is stored returns the
\* apartment id the invitation was created for and removes the entry; a
\* consumption of an issued code whose entry is gone fails with "invitation not
\* found or already used" and apartment id 0
C2_ConsumeOnceThenNotFound ==
    [][\A p \in JoinCalls : (join[p].pc = "idle" /\ join'[p].pc # "idle") =>
          \A t \in Tuples :
              (join'[p].code = CodeOf(t) /\ join'[p].result # ErrRedis) =>
                  IF KeyOf(t) \in redis
                  THEN /\ join'[p].apartmentID = t[2]
                       /\ join'[p].result = ""
                       /\ KeyOf(t) \notin redis'
                  ELSE /\ join'[p].apartmentID = 0
                       /\ join'[p].result = ErrNotFound]_vars

\* an issued code was consumed and joined with, and a later consumption of the
\* same code was refused
C2_Witness ==
    \E t \in Tuples, p \in JoinCalls, q \in JoinCalls :
        /\ puts[t] = 1 /\ t \notin expired
        /\ join[p].code = CodeOf(t) /\ join[p].result = Joined /\ join[p].apartmentID = t[2]
        /\ join[q].code = CodeOf(t) /\ join[q].pc = "done" /\ join[q].result = ErrNotFound

\* C10: at most one membership row per (user_id, apartment_id)
C10_OneRowPerUserApartment ==
    \A r1 \in user_apartments, r2 \in user_apartments :
        (r1.user_id = r2.user_id /\ r1.apartment_id = r2.apartment_id) => r1 = r2

\* the same user went through two invitations to one apartment: one call
\* joined, the other was refused by the table
C10_Witness ==
    \E p \in JoinCalls, q \in JoinCalls :
        /\ join[p].userID = join[q].userID /\ join[p].code # join[q].code
        /\ join[p].apartmentID = join[q].apartmentID /\ Won(p)
        /\ join[p].result = Joined /\ join[q].result = ErrJoin
        /\ Cardinality({r \in user_apartments : r.user_id = join[p].userID
                            /\ r.apartment_id = join[p].apartmentID}) = 1

\* the (invitee, apartment, inviter) a decodable code names
Named(code) == Decoded(code).ids

\* the user has a membership row for the apartment
IsMember(table, userID, apartmentID) ==
    \E r \in table : r.user_id = userID /\ r.apartment_id = apartmentID

\* ------------------------------------------------------ codec round trip

InitCodec ==
    /\ apartments = {}
    /\ user_apartments = {}
    /\ redis = {}
    /\ join = [p \in JoinCalls |-> IdleJoin]
    /\ puts = [t \in Tuples |-> 0]
    /\ expired = {}
    /\ payments = <<>>
    /\ pay = [p \in PayCalls |-> IdlePay]
    /\ clock = 0
    /\ bills = <<>>
    /\ div = [d \in DivCalls |-> IdleDiv]
    /\ invite = [c \in InviteCalls |-> IdleInvite]
    /\ codec = IdleCodec

\* CreateInvitation's Encode of (userID, apartmentID, managerID)
EncodeTuple(userID, apartmentID, managerID) ==
    /\ codec.pc = "idle"
    /\ codec' = [codec EXCEPT !.pc = "encoded", !.nums = <<userID, apartmentID, managerID>>,
                               !.code = Encode(<<userID, apartmentID, managerID>>)]
    /\ UNCHANGED <<inviteVars, redis, payVars, divVars, invite>>

\* ValidateAndConsumeInvitation's DecodeWithError of the code
DecodeCode ==
    /\ codec.pc = "encoded"
    /\ codec' = [codec EXCEPT !.pc = "decoded", !.decoded = DecodeWithError(codec.code)]
    /\ UNCHANGED <<inviteVars, redis, payVars, divVars, invite>>

NextCodec ==
    \/ \E a \in 0..MaxId, b \in 0..MaxId, c \in 0..MaxId : EncodeTuple(a, b, c)
    \/ DecodeCode

SpecCodec == InitCodec /\ [][NextCodec]_vars

InitService ==
    /\ apartments = {1}
    /\ user_apartments = {[user_id |-> 1, apartment_id |-> 1, is_manager |-> TRUE]}
    /\ redis = {}
    /\ join = [p \in JoinCalls |-> IdleJoin]
    /\ puts = [t \in Tuples |-> 0]
    /\ expired = {}
    /\ payments = <<>>
    /\ pay = [p \in PayCalls |-> IdlePay]
    /\ clock = 0
    /\ bills = <<>>
    /\ div = [d \in DivCalls |-> IdleDiv]
    /\ invite = [c \in InviteCalls |-> IdleInvite]
    /\ codec = IdleCodec

\* InviteUserToApartment, with its arguments and outcome kept
InviteCall(c) ==
    /\ invite[c].pc = "idle"
    /\ \E managerID \in Users, apartmentID \in ApartmentIDs, handle \in Handles,
          fail \in {"none", "db", "resident", "redis", "notify"} :
          LET out == InviteOutcome(managerID, apartmentID, handle,
                                   fail # "db", fail # "resident", fail # "redis", fail # "notify")
          IN /\ redis' = out.store
             /\ puts' = IF out.stored
                        THEN [puts EXCEPT ![<<handle, apartmentID, managerID>>] = @ + 1]
                        ELSE puts
             /\ invite' = [invite EXCEPT ![c] =
                    [pc |-> "done", managerID |-> managerID, apartmentID |-> apartmentID,
                     handle |-> handle, err |-> out.err, stored |-> out.stored,
                     send |-> out.send,
                     overwrote |-> out.stored /\ redisKey(handle, apartmentID, managerID) \in redis,
                     checkFailed |-> /\ fail = "resident"
                                     /\ out.err \notin {ErrInviteVerify, ErrInviteOnlyManagers,
                                                         ErrInviteNoUser}]]
    /\ UNCHANGED <<apartments, user_apartments, join, expired, payVars, divVars, codec>>

NextService ==
    \/ \E c \in InviteCalls : InviteCall(c)
    \/ \E t \in Tuples : Expire(t)
    \/ \E p \in JoinCalls : JoinConsume(p)
    \/ \E p \in JoinCalls : JoinCheck(p)
    \/ \E p \in JoinCalls : JoinInsert(p)

SpecService == InitService /\ [][NextService]_vars

\* the caller manages the apartment
IsManager(table, userID, apartmentID) ==
    \E r \in table : r.user_id = userID /\ r.apartment_id = apartmentID /\ r.is_manager

\* C11: an InviteUserToApartment call by a user who does not manage the
\* apartment, or for a handle of no user, or for a user its resident check finds
\* in the apartment, is rejected; and a call rejected at the manager check, the
\* handle lookup or the resident check writes no invitation entry (none created,
\* none refreshed) and does not call SendInvitation
C11_RejectedInviteNoEffect ==
    [][\A c \in InviteCalls : (invite[c].pc = "idle" /\ invite'[c].pc = "done") =>
          LET r == invite'[c]
              rejected == r.err \in {ErrInviteVerify, ErrInviteOnlyManagers, ErrInviteNoUser,
                                     ErrCheckResident, ErrInviteResident}
          IN /\ (\/ ~IsManager(user_apartments, r.managerID, r.apartmentID)
                 \/ r.handle \notin Users
                 \/ IsMember(user_apartments, r.handle, r.apartmentID) /\ ~r.checkFailed)
                    => rejected
             /\ rejected =>
                    /\ redis' = redis /\ puts' = puts
                    /\ ~r.stored /\ r.send = "not called"]_vars

\* an invitation is stored, and a call by a user who is no manager, for the same
\* invitee, was refused and left it as it was
C11_Witness ==
    \E c \in InviteCalls, e \in InviteCalls :
        /\ invite[c].err = "" /\ invite[c].stored
        /\ puts[<<invite[c].handle, invite[c].apartmentID, invite[c].managerID>>] = 1
        /\ invite[e].err = ErrInviteVerify /\ invite[e].managerID # invite[c].managerID
        /\ invite[e].handle = invite[c].handle /\ invite[e].apartmentID = invite[c].apartmentID
        /\ ~invite[e].stored /\ invite[e].send = "not called"

\* C12: the InviteUserToApartment calls whose SendInvitation fails are those that
\* return "invitation created but failed to send notification"; such a call has
\* written the entry, the entry is in the store when it returns, and a
\* consumption of its code then returns the apartment id
C12_NotifyFailureKeepsInvitation ==
    [][\A c \in InviteCalls : (invite[c].pc = "idle" /\ invite'[c].pc = "done") =>
          LET r == invite'[c]
              t == <<r.handle, r.apartmentID, r.managerID>>
          IN /\ (r.send = "failed") <=> (r.err = ErrNotify)
             /\ r.err = ErrNotify =>
                   /\ r.stored /\ puts'[t] = puts[t] + 1 /\ KeyOf(t) \in redis'
                   /\ ValidateAndConsumeInvitation(redis', CodeOf(t), TRUE).err = ""
                   /\ ValidateAndConsumeInvitation(redis', CodeOf(t), TRUE).apartmentID
                         = r.apartmentID]_vars

\* the notification of an invitation failed and a user joined with its code
C12_Witness ==
    \E c \in InviteCalls, p \in JoinCalls :
        /\ invite[c].err = ErrNotify
        /\ puts[<<invite[c].handle, invite[c].apartmentID, invite[c].managerID>>] = 1
        /\ join[p].code = CodeOf(<<invite[c].handle, invite[c].apartmentID, invite[c].managerID>>)
        /\ join[p].result = Joined /\ join[p].apartmentID = invite[c].apartmentID

\* the recorded calls whose CreateInvitation wrote the entry of t
Wrote(t) ==
    {c \in InviteCalls : /\ invite[c].stored
                         /\ <<invite[c].handle, invite[c].apartmentID, invite[c].managerID>> = t}

\* the JoinApartment calls whose consumption of the code of t succeeded
Consumed(t) == {p \in JoinCalls : Won(p) /\ join[p].code = CodeOf(t)}

\* C23: an InviteUserToApartment that stores the entry of a tuple whose entry is
\* still in the store leaves the store with the same one entry; and the
\* successful consumptions of a tuple's code are never more than the writes of
\* its entry that found it absent, so an invitation and its re-invitation while
\* outstanding are consumed once between them
C23_ReinviteOneEntry ==
    [][/\ \A c \in InviteCalls :
             (invite[c].pc = "idle" /\ invite'[c].pc = "done" /\ invite'[c].overwrote) =>
                 /\ redis' = redis
                 /\ redisKey(invite'[c].handle, invite'[c].apartmentID, invite'[c].managerID)
                       \in redis'
       /\ \A t \in Tuples :
             Cardinality(Consumed(t))' <= Cardinality({c \in Wrote(t) : ~invite[c].overwrote})']_vars

\* a tuple was invited and invited again while the first entry was there; of two
\* calls that then presented the code one consumed it and the other found nothing
C23_Witness ==
    \E t \in Tuples :
        /\ Cardinality(Wrote(t)) = 2 /\ \E c \in Wrote(t) : invite[c].overwrote
        /\ t \notin expired
        /\ \E p \in JoinCalls, q \in JoinCalls :
              /\ join[p].code = CodeOf(t) /\ Won(p)
              /\ join[q].code = CodeOf(t) /\ join[q].result = ErrNotFound

\* C29: a call whose IsUserInApartment query failed returns "failed to check
\* resident status" and stores no invitation; and a JoinApartment call goes on
\* from its resident check to the insert only when the table has no row for the
\* caller and the apartment
C29_CheckFailureIsReported ==
    [][/\ \A c \in InviteCalls :
             invite'[c].checkFailed =>
                 (invite'[c].err = ErrCheckResident /\ ~invite'[c].stored)
       /\ \A p \in JoinCalls :
             (join[p].pc = "check" /\ join'[p].pc = "insert") =>
                 ~IsMember(user_apartments, join[p].userID, join[p].apartmentID)]_vars

\* C13: the insert of a JoinApartment call that got past the consumption and the
\* resident check either adds exactly the row (caller, apartment of the code,
\* is_manager = FALSE) for a caller who had none, or fails and adds nothing; the
\* invitee the code names gets no row from it
C13_BearerJoins ==
    [][\A p \in JoinCalls : (join[p].pc = "insert" /\ join'[p].pc = "done") =>
          LET row == [user_id |-> join[p].userID, apartment_id |-> Named(join[p].code)[2],
                      is_manager |-> FALSE]
          IN /\ join'[p].result \in {Joined, ErrJoin}
             /\ join'[p].result = Joined =>
                   /\ ~IsMember(user_apartments, join[p].userID, row.apartment_id)
                   /\ user_apartments' = user_apartments \cup {row}
             /\ join'[p].result = ErrJoin => user_apartments' = user_apartments]_vars

\* a user other than the invitee joined with the invitee's code, and the invitee
\* has no membership row
C13_Witness ==
    \E p \in JoinCalls :
        /\ join[p].result = Joined /\ Len(Named(join[p].code)) = 3
        /\ join[p].userID # Named(join[p].code)[1]
        /\ [user_id |-> join[p].userID, apartment_id |-> Named(join[p].code)[2],
            is_manager |-> FALSE] \in user_apartments
        /\ ~IsMember(user_apartments, Named(join[p].code)[1], Named(join[p].code)[2])

\* C14: when JoinApartment answers "you are already a resident of this
\* apartment", the invitation entry of the presented code is still in the store
\* and the membership table is unchanged
C14_RejectionLeavesInvitation ==
    [][\A p \in JoinCalls :
          (join[p].pc = "check" /\ join'[p].result = ErrAlreadyResident) =>
              /\ KeyOf(Named(join[p].code)) \in redis'
              /\ user_apartments' = user_apartments]_vars

\* C15: the consumption of a code that decodes to three numbers and whose entry
\* is not in the store (it ran out, it was consumed, or it was never written)
\* returns "invitation not found or already used" and apartment id 0, and
\* leaves the store as it was
C15_AbsentEntrySameError ==
    [][\A p \in JoinCalls : (join[p].pc = "idle" /\ join'[p].pc # "idle") =>
          LET d == Decoded(join'[p].code)
          IN (/\ ~d.err /\ Len(d.ids) = 3
              /\ redisKey(d.ids[1], d.ids[2], d.ids[3]) \notin redis
              /\ join'[p].result # ErrRedis) =>
                 /\ join'[p].result = ErrNotFound /\ join'[p].apartmentID = 0
                 /\ join'[p].pc = "done" /\ redis' = redis]_vars

\* one call presented a code whose entry had run out, another a code that was
\* never written: both got "invitation not found or already used"
C15_Witness ==
    \E t \in Tuples, p \in JoinCalls, q \in JoinCalls :
        /\ puts[t] = 1 /\ t \in expired
        /\ join[p].code = CodeOf(t) /\ join[p].result = ErrNotFound
        /\ join[q].code = NeverIssuedCode /\ join[q].result = ErrNotFound

\* C17: a JoinApartment call whose ValidateAndConsumeInvitation failed (a code
\* that does not decode to three numbers always fails, as invalid) has apartment
\* id 0, has returned that error, and has inserted no row and sent no notification
C17_FailedConsumptionStops ==
    \A p \in JoinCalls :
        /\ (join[p].pc # "idle" /\ (Decoded(join[p].code).err \/ Len(Named(join[p].code)) # 3))
              => join[p].result = ErrInvalidCode
        /\ join[p].result \in {ErrInvalidCode, ErrRedis, ErrNotFound} =>
              /\ join[p].apartmentID = 0 /\ join[p].pc = "done"
              /\ ~join[p].inserted /\ ~join[p].notified

\* one call presented a code of two numbers, another met a failing store
C17_Witness ==
    \E p \in JoinCalls, q \in JoinCalls :
        /\ join[p].code = Encode(<<1, 1>>) /\ join[p].result = ErrInvalidCode
        /\ join[q].result = ErrRedis /\ join[q].pc = "done"
        /\ user_apartments = {}

\* C19 as stated: the code of an invitation is consumed successfully at most once
C19_CodeConsumedOnce ==
    \A t \in Tuples :
        Cardinality({p \in JoinCalls : Won(p) /\ join[p].code = CodeOf(t)}) <= 1

\* C19: the code of an invitation is consumed successfully at most as many times
\* as its entry was written to the store
C19_ConsumedAtMostAsIssued ==
    \A t \in Tuples :
        Cardinality({p \in JoinCalls : Won(p) /\ join[p].code = CodeOf(t)}) <= puts[t]

\* the same invitation was written twice and its code consumed twice
C19_Witness ==
    \E t \in Tuples :
        /\ puts[t] = 2
        /\ Cardinality({p \in JoinCalls : Won(p) /\ join[p].code = CodeOf(t)}) = 2

\* the membership rows that are not manager rows
Residents == {r \in user_apartments : ~r.is_manager}

\* C30: a JoinApartment call gets an apartment id only by deleting the stored
\* entry of an invitation to that apartment; a membership row that is not a
\* manager row is added only by the insert of such a call, for its caller and
\* that apartment, one row a call; so there are never more such rows than
\* deleted entries, nor more deleted entries of a tuple than writes of its entry
C30_MembershipNeedsInvitation ==
    [][/\ \A p \in JoinCalls :
             (join[p].pc = "idle" /\ Won(p)') =>
                 /\ KeyOf(Named(join'[p].code)) \in redis
                 /\ KeyOf(Named(join'[p].code)) \notin redis'
                 /\ join'[p].apartmentID = Named(join'[p].code)[2]
       /\ \A r \in Residents' \ Residents :
             \E p \in JoinCalls :
                 /\ join[p].pc = "insert" /\ Won(p) /\ join'[p].inserted
                 /\ r = [user_id |-> join[p].userID, apartment_id |-> join[p].apartmentID,
                         is_manager |-> FALSE]
                 /\ Residents' = Residents \cup {r}
       /\ Cardinality(Residents') <= Cardinality({p \in JoinCalls : join[p].inserted}')
       /\ \A p \in JoinCalls : join'[p].inserted => Won(p)'
       /\ \A t \in Tuples : Cardinality({p \in JoinCalls : Won(p) /\ join[p].code = CodeOf(t)}')
                                <= puts'[t]]_vars

\* user 2 joined apartment 1 with the code of an invitation whose entry the call
\* deleted; the row is the only one that is not a manager row
C30_Witness ==
    \E p \in JoinCalls :
        /\ join[p].inserted /\ Won(p) /\ join[p].userID = 2 /\ join[p].apartmentID = 1
        /\ KeyOf(Named(join[p].code)) \notin redis
        /\ Residents = {[user_id |-> 2, apartment_id |-> 1, is_manager |-> FALSE]}

====
